---- MODULE Spec2Model ----
(***************************************************************************)
(* Model of human_annotate/human_annotation.py: the ChatServer that lets a *)
(* human answer a dspy signature through a web form.                       *)
(*                                                                         *)
(*   ChatServer.state            -> state                                  *)
(*   ChatServer.lock             -> lock                                   *)
(*   ChatServer.query_processed  -> event                                  *)
(*   threads inside query()      -> callers                                *)
(*   POST handlers in flight     -> posts                                  *)
(*   the page in the browser     -> tab                                    *)
(***************************************************************************)
EXTENDS Integers, Sequences, FiniteSets, TLC

VARIABLES state, lock, event, callers, posts, tab, last,
          nQueries, nPosts, nReturned, nSuccess

vars == <<state, lock, event, callers, posts, tab, last,
          nQueries, nPosts, nReturned, nSuccess>>

(***************************************************************************)
(* Bounds of the model.                                                    *)
(***************************************************************************)
\* number of query() calls made in one behaviour
MaxAsks == 2
\* number of POST requests received in one behaviour
MaxPosts == 2

\* threads that call query
Callers == {1, 2}
\* post is a coroutine of the one event loop of the server and does not await between
\* building the form data and returning: one POST is in that part at a time
Handlers == {1}

(***************************************************************************)
(* Inputs: signatures, input data, raw form values.                        *)
(***************************************************************************)
EmptyMap == [x \in {} |-> ""]

Put(f, k, v) == [x \in (DOMAIN f) \cup {k} |-> IF x = k THEN v ELSE f[x]]

\* a signature without output fields
Sig0 == [name |-> "Sig0",
         input_fields |-> << [name |-> "topic", desc |-> "This is an input field."] >>,
         output_fields |-> << >>]

\* MockSignatureWithEnum of the tests: one Literal output field
Sig1 == [name |-> "Sig1",
         input_fields |-> << [name |-> "topic", desc |-> "This is an input field."] >>,
         output_fields |-> << [name |-> "rating", annotation |-> "Literal"] >>]

\* two input fields (one without description), a Literal and an int output field
Sig2 == [name |-> "Sig2",
         input_fields |-> << [name |-> "topic", desc |-> "This is an input field."],
                             [name |-> "n", desc |-> ""] >>,
         output_fields |-> << [name |-> "rating", annotation |-> "Literal"],
                              [name |-> "count", annotation |-> "int"] >>]

Signatures == {Sig0, Sig1, Sig2}

InputNames(signature) ==
    {signature.input_fields[i].name : i \in 1..Len(signature.input_fields)}

OutputNames(signature) ==
    {signature.output_fields[i].name : i \in 1..Len(signature.output_fields)}

\* the keyword arguments of query(): values for a subset of the declared input fields
DataFor(signature) ==
    UNION {[S -> {"cats"}] : S \in SUBSET InputNames(signature)}

\* raw strings an HTTP client can submit for a field
RawValues == {"\"B\"", "5"}

\* the bodies of a POST: raw strings for any subset of the output field names
Forms == UNION {[S -> RawValues] : S \in SUBSET {"rating", "count"}}

(***************************************************************************)
(* Types: FormData.                                                        *)
(***************************************************************************)
\* form.items() of the request: the (key, value) pairs of the body
Items(form) == {<<k, form[k]>> : k \in DOMAIN form}

\* FormData(*args, **fields): __init__ accepts keyword arguments only
FormDataInit(args, fields) ==
    IF args # {}
    THEN [raised |-> "TypeError", fields |-> EmptyMap]
    ELSE [raised |-> "", fields |-> fields]

(***************************************************************************)
(* pydantic TypeAdapter, as far as the server uses it.                     *)
(***************************************************************************)
LiteralValues == <<"A", "B", "C">>

\* json.loads of a raw string
JsonLoads(raw) ==
    CASE raw = "\"A\"" -> [ok |-> TRUE, type |-> "str", value |-> "A"]
      [] raw = "\"B\"" -> [ok |-> TRUE, type |-> "str", value |-> "B"]
      [] raw = "\"C\"" -> [ok |-> TRUE, type |-> "str", value |-> "C"]
      [] raw = "5"     -> [ok |-> TRUE, type |-> "int", value |-> 5]
      [] OTHER         -> [ok |-> FALSE, type |-> "", value |-> ""]

\* TypeAdapter(annotation).validate_json(raw): the parsed value or the first error message
ValidateJson(annotation, raw) ==
    LET j == JsonLoads(raw) IN
    IF ~j.ok
    THEN [ok |-> FALSE, value |-> "", msg |-> "Invalid JSON"]
    ELSE IF annotation = "Literal"
    THEN IF j.type = "str" /\ \E k \in 1..Len(LiteralValues) : LiteralValues[k] = j.value
         THEN [ok |-> TRUE, value |-> j.value, msg |-> ""]
         ELSE [ok |-> FALSE, value |-> "", msg |-> "Input should be 'A', 'B' or 'C'"]
    ELSE IF j.type = "int"
         THEN [ok |-> TRUE, value |-> j.value, msg |-> ""]
         ELSE [ok |-> FALSE, value |-> "", msg |-> "Input should be a valid integer"]

\* TypeAdapter(annotation).json_schema().get('enum')
SchemaEnum(annotation) == IF annotation = "Literal" THEN LiteralValues ELSE << >>

(***************************************************************************)
(* Pages.                                                                  *)
(***************************************************************************)
\* Waiting.get and Result.get build the same placeholder
WaitingPage == [kind |-> "waiting", inputs |-> << >>, fields |-> << >>]

\* one iteration of the loop over signature.output_fields in _form
FormField(field, filled_outputs, outputs_errors) ==
    LET name  == field.name
        error == IF name \in DOMAIN outputs_errors THEN outputs_errors[name] ELSE ""
        value == IF name \in DOMAIN filled_outputs THEN filled_outputs[name] ELSE ""
        enum  == SchemaEnum(field.annotation)
    IN  [name    |-> name,
         control |-> IF enum # << >> THEN "radio" ELSE "textarea",
         options |-> [k \in 1..Len(enum) |->
                         [id      |-> name \o "_" \o enum[k],
                          value   |-> "\"" \o enum[k] \o "\"",
                          checked |-> (value = enum[k])]],
         text    |-> IF enum # << >> THEN "" ELSE value,
         error   |-> error]

\* _form(signature, inputs, filled_outputs, outputs_errors)
Form(signature, inputs, filled_outputs, outputs_errors) ==
    LET given == SelectSeq(signature.input_fields, LAMBDA f : f.name \in DOMAIN inputs)
    IN  [kind   |-> "form",
         inputs |-> [i \in 1..Len(given) |->
                        [desc  |-> IF given[i].desc # "" THEN given[i].desc ELSE given[i].name,
                         value |-> inputs[given[i].name]]],
         fields |-> [j \in 1..Len(signature.output_fields) |->
                        FormField(signature.output_fields[j], filled_outputs, outputs_errors)]]

(***************************************************************************)
(* Server states: Waiting, Query, Result.                                  *)
(***************************************************************************)
Waiting == [tag |-> "Waiting", id |-> 0, signature |-> Sig0, data |-> EmptyMap,
            prediction |-> EmptyMap]

\* Result(prediction); id is the Query object whose post built it
Result(prediction, id) ==
    [tag |-> "Result", id |-> id, signature |-> Sig0, data |-> EmptyMap,
     prediction |-> prediction]

\* the first declared input field that data lacks, "" when there is none
RECURSIVE FirstMissing(_, _, _)
FirstMissing(input_fields, i, data) ==
    IF i > Len(input_fields) THEN ""
    ELSE IF input_fields[i].name \notin DOMAIN data THEN input_fields[i].name
    ELSE FirstMissing(input_fields, i + 1, data)

\* Query.__init__ without the loop that checks the input fields
QueryInitUnchecked(signature, data, id) ==
    [raised |-> "", msg |-> "",
     obj |-> [tag |-> "Query", id |-> id, signature |-> signature, data |-> data,
              prediction |-> EmptyMap]]

\* Query.__init__(signature, data); id is the identity of the new object
QueryInit(signature, data, id) ==
    LET missing == FirstMissing(signature.input_fields, 1, data) IN
    IF missing # ""
    THEN [raised |-> "ValueError", msg |-> missing, obj |-> Waiting]
    ELSE [raised |-> "", msg |-> "",
          obj |-> [tag |-> "Query", id |-> id, signature |-> signature, data |-> data,
                   prediction |-> EmptyMap]]

\* Query.get / Result.get / Waiting.get
StateGet(self) ==
    IF self.tag = "Query"
    THEN Form(self.signature, FormDataInit({}, self.data).fields, FormDataInit({}, EmptyMap).fields, EmptyMap)
    ELSE WaitingPage

\* the validation loop of Query.post, from field i on
RECURSIVE ValidateFields(_, _, _, _, _)
ValidateFields(output_fields, i, formData, parsed_data, errors) ==
    IF i > Len(output_fields)
    THEN [raised |-> "", parsed_data |-> parsed_data, errors |-> errors]
    ELSE LET key == output_fields[i].name IN
         IF key \notin DOMAIN formData
         THEN [raised |-> "KeyError", parsed_data |-> parsed_data, errors |-> errors]
         ELSE LET r == ValidateJson(output_fields[i].annotation, formData[key]) IN
              IF r.ok
              THEN ValidateFields(output_fields, i + 1, formData,
                                  Put(parsed_data, key, r.value), errors)
              ELSE ValidateFields(output_fields, i + 1, formData,
                                  parsed_data, Put(errors, key, r.msg))

\* dspy.Prediction.from_completions({key: [value]}): one completion list per field
FromCompletions(parsed_data) == [k \in DOMAIN parsed_data |-> << parsed_data[k] >>]

\* Query.post with the loop running over the submitted fields instead of the
\* signature's output fields
QueryPostSubmittedOnly(self, formData) ==
    LET submitted == SelectSeq(self.signature.output_fields,
                               LAMBDA f : f.name \in DOMAIN formData)
        v == ValidateFields(submitted, 1, formData, EmptyMap, EmptyMap) IN
    IF DOMAIN v.errors # {}
    THEN [raised |-> "", next |-> self, set |-> FALSE,
          html |-> Form(self.signature, FormDataInit({}, self.data).fields, formData, v.errors),
          errors |-> v.errors]
    ELSE LET result == Result(FromCompletions(v.parsed_data), self.id) IN
         [raised |-> "", next |-> result, set |-> TRUE, html |-> StateGet(result),
          errors |-> v.errors]

\* Query.post without query_processed.set()
QueryPostNoSet(self, formData) ==
    LET v == ValidateFields(self.signature.output_fields, 1, formData, EmptyMap, EmptyMap) IN
    IF v.raised # ""
    THEN [raised |-> v.raised, next |-> self, set |-> FALSE, html |-> WaitingPage,
          errors |-> v.errors]
    ELSE IF DOMAIN v.errors # {}
    THEN [raised |-> "", next |-> self, set |-> FALSE,
          html |-> Form(self.signature, FormDataInit({}, self.data).fields, formData, v.errors),
          errors |-> v.errors]
    ELSE LET result == Result(FromCompletions(v.parsed_data), self.id) IN
         [raised |-> "", next |-> result, set |-> FALSE, html |-> StateGet(result),
          errors |-> v.errors]

\* Query.post(query_processed, formData): what it raises, the next state, whether it
\* sets the event, the page it returns
QueryPost(self, formData) ==
    LET v == ValidateFields(self.signature.output_fields, 1, formData, EmptyMap, EmptyMap) IN
    IF v.raised # ""
    THEN [raised |-> v.raised, next |-> self, set |-> FALSE, html |-> WaitingPage,
          errors |-> v.errors]
    ELSE IF DOMAIN v.errors # {}
    THEN [raised |-> "", next |-> self, set |-> FALSE,
          html |-> Form(self.signature, FormDataInit({}, self.data).fields, formData, v.errors),
          errors |-> v.errors]
    ELSE LET result == Result(FromCompletions(v.parsed_data), self.id) IN
         [raised |-> "", next |-> result, set |-> TRUE, html |-> StateGet(result),
          errors |-> v.errors]

\* self.state.post(self.query_processed, data) as ChatServer.post calls it: two positional
\* arguments; Result.post and Waiting.post accept one positional argument and keywords
StatePost(self, formData) ==
    IF self.tag = "Query"
    THEN QueryPost(self, formData)
    ELSE [raised |-> "TypeError", next |-> self, set |-> FALSE, html |-> WaitingPage,
          errors |-> EmptyMap]

(***************************************************************************)
(* ChatServer: initial state.                                              *)
(***************************************************************************)
NoOwner == [kind |-> "none", id |-> 0]
CallerOwner(c) == [kind |-> "query", id |-> c]
HandlerOwner(h) == [kind |-> "post", id |-> h]

IdleCaller == [pc |-> "idle", signature |-> Sig0, data |-> EmptyMap, qid |-> 0,
               done |-> "", msg |-> "", result |-> EmptyMap, from |-> 0]

IdleHandler == [pc |-> "idle", form |-> EmptyMap, src |-> 0, data |-> EmptyMap,
                pre |-> Waiting, next |-> Waiting, html |-> WaitingPage, set |-> FALSE,
                errors |-> EmptyMap]

NoPost == [n |-> 0, form |-> EmptyMap, src |-> 0, pre |-> Waiting, raised |-> "",
           next |-> Waiting, html |-> WaitingPage, set |-> FALSE, errors |-> EmptyMap]

NoPage == [by |-> "none", page |-> WaitingPage, of |-> 0, signaled |-> FALSE]

\* the Query object a page was rendered from, 0 for the placeholder
PageOf(self) == IF self.tag = "Query" THEN self.id ELSE 0

\* ChatServer.__init__
Init ==
    /\ state = Waiting
    /\ lock = NoOwner
    /\ event = FALSE
    /\ callers = [c \in Callers |-> IdleCaller]
    /\ posts = [h \in Handlers |-> IdleHandler]
    /\ tab = NoPage
    /\ last = NoPost
    /\ nQueries = 0
    /\ nPosts = 0
    /\ nReturned = 0
    /\ nSuccess = 0

(***************************************************************************)
(* ChatServer.query, one action per step of the calling thread.            *)
(***************************************************************************)
\* query(signature, **data) is called and enters the first "with self.lock"
QueryEnter(c, signature, data) ==
    /\ callers[c].pc = "idle"
    /\ nQueries < MaxAsks
    /\ lock = NoOwner
    /\ lock' = CallerOwner(c)
    /\ nQueries' = nQueries + 1
    /\ callers' = [callers EXCEPT ![c] =
                      [IdleCaller EXCEPT !.pc = "init", !.signature = signature,
                                         !.data = data, !.qid = nQueries + 1]]
    /\ UNCHANGED <<state, event, posts, tab, last, nPosts, nReturned, nSuccess>>

\* the first with block with Query(signature, data) built but not assigned to self.state
QuerySetStateNoAssign(c) ==
    /\ callers[c].pc = "init"
    /\ lock = CallerOwner(c)
    /\ LET q == QueryInit(callers[c].signature, callers[c].data, callers[c].qid) IN
       IF q.raised # ""
       THEN /\ callers' = [callers EXCEPT ![c].pc = "idle", ![c].done = q.raised,
                                          ![c].msg = q.msg]
            /\ lock' = NoOwner
            /\ state' = state
       ELSE /\ callers' = [callers EXCEPT ![c].pc = "clear1"]
            /\ state' = state
            /\ lock' = lock
    /\ UNCHANGED <<event, posts, tab, last, nQueries, nPosts, nReturned, nSuccess>>

\* the first with block refusing to replace a Query that is still the state
QuerySetStateKeepPending(c) ==
    /\ callers[c].pc = "init"
    /\ lock = CallerOwner(c)
    /\ LET q == QueryInit(callers[c].signature, callers[c].data, callers[c].qid) IN
       IF q.raised # ""
       THEN /\ callers' = [callers EXCEPT ![c].pc = "idle", ![c].done = q.raised,
                                          ![c].msg = q.msg]
            /\ lock' = NoOwner
            /\ state' = state
       ELSE /\ callers' = [callers EXCEPT ![c].pc = "clear1"]
            /\ state' = IF state.tag = "Query" THEN state ELSE q.obj
            /\ lock' = lock
    /\ UNCHANGED <<event, posts, tab, last, nQueries, nPosts, nReturned, nSuccess>>

\* self.state = Query(signature, data); a ValueError leaves the with block
QuerySetState(c) ==
    /\ callers[c].pc = "init"
    /\ lock = CallerOwner(c)
    /\ LET q == QueryInit(callers[c].signature, callers[c].data, callers[c].qid) IN
       IF q.raised # ""
       THEN /\ callers' = [callers EXCEPT ![c].pc = "idle", ![c].done = q.raised,
                                          ![c].msg = q.msg]
            /\ lock' = NoOwner
            /\ state' = state
       ELSE /\ callers' = [callers EXCEPT ![c].pc = "clear1"]
            /\ state' = q.obj
            /\ lock' = lock
    /\ UNCHANGED <<event, posts, tab, last, nQueries, nPosts, nReturned, nSuccess>>

\* self.query_processed.clear() with wait() moved inside the first with block
QueryClearKeepLock(c) ==
    /\ callers[c].pc = "clear1"
    /\ lock = CallerOwner(c)
    /\ event' = FALSE
    /\ lock' = lock
    /\ callers' = [callers EXCEPT ![c].pc = "wait"]
    /\ UNCHANGED <<state, posts, tab, last, nQueries, nPosts, nReturned, nSuccess>>

\* self.query_processed.clear() and the end of the first with block
QueryClear(c) ==
    /\ callers[c].pc = "clear1"
    /\ lock = CallerOwner(c)
    /\ event' = FALSE
    /\ lock' = NoOwner
    /\ callers' = [callers EXCEPT ![c].pc = "wait"]
    /\ UNCHANGED <<state, posts, tab, last, nQueries, nPosts, nReturned, nSuccess>>

\* wait() that returns although the event is not set
QueryWaitNoBlock(c) ==
    /\ callers[c].pc = "wait"
    /\ callers' = [callers EXCEPT ![c].pc = "lock2"]
    /\ UNCHANGED <<state, lock, event, posts, tab, last, nQueries, nPosts, nReturned, nSuccess>>

\* self.query_processed.wait() returns
QueryWait(c) ==
    /\ callers[c].pc = "wait"
    /\ event
    /\ callers' = [callers EXCEPT ![c].pc = "lock2"]
    /\ UNCHANGED <<state, lock, event, posts, tab, last, nQueries, nPosts, nReturned, nSuccess>>

\* the second "with self.lock" is entered
QueryRelock(c) ==
    /\ callers[c].pc = "lock2"
    /\ lock = NoOwner
    /\ lock' = CallerOwner(c)
    /\ callers' = [callers EXCEPT ![c].pc = "read"]
    /\ UNCHANGED <<state, event, posts, tab, last, nQueries, nPosts, nReturned, nSuccess>>

\* the second with block without self.state = Waiting()
QueryReadNoReset(c) ==
    /\ callers[c].pc = "read"
    /\ lock = CallerOwner(c)
    /\ IF state.tag = "Result"
       THEN /\ callers' = [callers EXCEPT ![c].pc = "clear2",
                                          ![c].result = state.prediction,
                                          ![c].from = state.id]
            /\ state' = state
            /\ lock' = lock
       ELSE /\ callers' = [callers EXCEPT ![c].pc = "idle", ![c].done = "AttributeError"]
            /\ state' = state
            /\ lock' = NoOwner
    /\ UNCHANGED <<event, posts, tab, last, nQueries, nPosts, nReturned, nSuccess>>

\* result = self.state.prediction; self.state = Waiting(). Only a Result has a prediction
QueryRead(c) ==
    /\ callers[c].pc = "read"
    /\ lock = CallerOwner(c)
    /\ IF state.tag = "Result"
       THEN /\ callers' = [callers EXCEPT ![c].pc = "clear2",
                                          ![c].result = state.prediction,
                                          ![c].from = state.id]
            /\ state' = Waiting
            /\ lock' = lock
       ELSE /\ callers' = [callers EXCEPT ![c].pc = "idle", ![c].done = "AttributeError"]
            /\ state' = state
            /\ lock' = NoOwner
    /\ UNCHANGED <<event, posts, tab, last, nQueries, nPosts, nReturned, nSuccess>>

\* the second with block left without self.query_processed.clear()
QueryReturnNoClear(c) ==
    /\ callers[c].pc = "clear2"
    /\ lock = CallerOwner(c)
    /\ event' = event
    /\ lock' = NoOwner
    /\ callers' = [callers EXCEPT ![c].pc = "idle", ![c].done = "returned"]
    /\ nReturned' = nReturned + 1
    /\ UNCHANGED <<state, posts, tab, last, nQueries, nPosts, nSuccess>>

\* self.query_processed.clear(), the end of the second with block, return result
QueryReturn(c) ==
    /\ callers[c].pc = "clear2"
    /\ lock = CallerOwner(c)
    /\ event' = FALSE
    /\ lock' = NoOwner
    /\ callers' = [callers EXCEPT ![c].pc = "idle", ![c].done = "returned"]
    /\ nReturned' = nReturned + 1
    /\ UNCHANGED <<state, posts, tab, last, nQueries, nPosts, nSuccess>>

(***************************************************************************)
(* The GET handler.                                                        *)
(***************************************************************************)
\* get(request) that also puts a Waiting in place of the state it rendered
GetResetting ==
    /\ tab' = [by |-> "get", page |-> StateGet(state), of |-> PageOf(state),
               signaled |-> event]
    /\ state' = IF state.tag = "Waiting" THEN state ELSE Waiting
    /\ UNCHANGED <<lock, event, callers, posts, last, nQueries, nPosts,
                   nReturned, nSuccess>>

\* get(request): self.state.get(), read without the lock
Get ==
    /\ tab' = [by |-> "get", page |-> StateGet(state), of |-> PageOf(state),
               signaled |-> event]
    /\ UNCHANGED <<state, lock, event, callers, posts, last, nQueries, nPosts,
                   nReturned, nSuccess>>

(***************************************************************************)
(* The POST handler, one action per step.                                  *)
(***************************************************************************)
\* where a body can come from: the form the browser tab shows (tab.of is the Query
\* object it was rendered from), when the body names the fields of that form, or 0
\* for any other client
Sources(form) ==
    {0} \cup
    (IF /\ tab.page.kind = "form"
        /\ DOMAIN form = {tab.page.fields[j].name : j \in 1..Len(tab.page.fields)}
     THEN {tab.of} ELSE {})

\* post(request) up to the with block: data = FormData(*form.items())
PostReceive(h, form, src) ==
    /\ posts[h].pc = "idle"
    /\ nPosts < MaxPosts
    /\ nPosts' = nPosts + 1
    /\ LET data == FormDataInit(Items(form), EmptyMap) IN
       IF data.raised # ""
       THEN /\ posts' = posts
            /\ last' = [NoPost EXCEPT !.n = nPosts + 1, !.form = form,
                                      !.src = src, !.pre = state,
                                      !.raised = data.raised, !.next = state]
       ELSE /\ posts' = [posts EXCEPT ![h] =
                            [IdleHandler EXCEPT !.pc = "lock", !.form = form,
                                                !.src = src,
                                                !.data = data.fields]]
            /\ last' = last
    /\ UNCHANGED <<state, lock, event, callers, tab, nQueries, nReturned, nSuccess>>

\* "with self.lock" is entered
PostLock(h) ==
    /\ posts[h].pc = "lock"
    /\ lock = NoOwner
    /\ lock' = HandlerOwner(h)
    /\ posts' = [posts EXCEPT ![h].pc = "call"]
    /\ UNCHANGED <<state, event, callers, tab, last, nQueries, nPosts, nReturned, nSuccess>>

\* the call of self.state.post with acquire() and release() written out, the release
\* skipped when the call raises
PostCallNoRelease(h) ==
    /\ posts[h].pc = "call"
    /\ lock = HandlerOwner(h)
    /\ LET r == StatePost(state, posts[h].data) IN
       IF r.raised # ""
       THEN /\ posts' = [posts EXCEPT ![h] = IdleHandler]
            /\ last' = [NoPost EXCEPT !.n = nPosts, !.form = posts[h].form,
                                      !.src = posts[h].src, !.pre = state,
                                      !.raised = r.raised, !.next = state]
            /\ lock' = lock
            /\ event' = event
            /\ nSuccess' = nSuccess
       ELSE /\ posts' = [posts EXCEPT ![h].pc = "assign", ![h].pre = state,
                                      ![h].next = r.next, ![h].html = r.html,
                                      ![h].set = r.set, ![h].errors = r.errors]
            /\ last' = last
            /\ lock' = lock
            /\ event' = (event \/ r.set)
            /\ nSuccess' = IF r.set THEN nSuccess + 1 ELSE nSuccess
    /\ UNCHANGED <<state, callers, tab, nQueries, nPosts, nReturned>>

\* next_state, html = self.state.post(self.query_processed, data)
PostCall(h) ==
    /\ posts[h].pc = "call"
    /\ lock = HandlerOwner(h)
    /\ LET r == StatePost(state, posts[h].data) IN
       IF r.raised # ""
       THEN /\ posts' = [posts EXCEPT ![h] = IdleHandler]
            /\ last' = [NoPost EXCEPT !.n = nPosts, !.form = posts[h].form,
                                      !.src = posts[h].src, !.pre = state,
                                      !.raised = r.raised, !.next = state]
            /\ lock' = NoOwner
            /\ event' = event
            /\ nSuccess' = nSuccess
       ELSE /\ posts' = [posts EXCEPT ![h].pc = "assign", ![h].pre = state,
                                      ![h].next = r.next, ![h].html = r.html,
                                      ![h].set = r.set, ![h].errors = r.errors]
            /\ last' = last
            /\ lock' = lock
            /\ event' = (event \/ r.set)
            /\ nSuccess' = IF r.set THEN nSuccess + 1 ELSE nSuccess
    /\ UNCHANGED <<state, callers, tab, nQueries, nPosts, nReturned>>

\* self.state = next_state, the end of the with block, the response; the tab shows it
\* when the body came from the tab
PostAssign(h) ==
    /\ posts[h].pc = "assign"
    /\ lock = HandlerOwner(h)
    /\ state' = posts[h].next
    /\ lock' = NoOwner
    /\ tab' = IF posts[h].src # 0
              THEN [by |-> "post", page |-> posts[h].html, of |-> PageOf(posts[h].next),
                    signaled |-> event]
              ELSE tab
    /\ last' = [NoPost EXCEPT !.n = nPosts, !.form = posts[h].form, !.src = posts[h].src,
                              !.pre = posts[h].pre, !.next = posts[h].next,
                              !.html = posts[h].html, !.set = posts[h].set,
                              !.errors = posts[h].errors]
    /\ posts' = [posts EXCEPT ![h] = IdleHandler]
    /\ UNCHANGED <<event, callers, nQueries, nPosts, nReturned, nSuccess>>

(***************************************************************************)
(* Specifications.                                                         *)
(***************************************************************************)
CallerStep(c) ==
    \/ \E signature \in Signatures : \E data \in DataFor(signature) :
          QueryEnter(c, signature, data)
    \/ QuerySetState(c)
    \/ QueryClear(c)
    \/ QueryWait(c)
    \/ QueryRelock(c)
    \/ QueryRead(c)
    \/ QueryReturn(c)

HandlerStep(h) ==
    \/ \E form \in Forms : \E src \in Sources(form) : PostReceive(h, form, src)
    \/ PostLock(h)
    \/ PostCall(h)
    \/ PostAssign(h)

\* any number of threads calling query
Next ==
    \/ \E c \in Callers : CallerStep(c)
    \/ \E h \in Handlers : HandlerStep(h)
    \/ Get

Spec == Init /\ [][Next]_vars

\* one thread calling query
Next1 ==
    \/ CallerStep(1)
    \/ \E h \in Handlers : HandlerStep(h)
    \/ Get

Spec1 == Init /\ [][Next1]_vars

\* the bodies sent while two threads call query: none, or a value for rating
Bodies2 == {form \in Forms : DOMAIN form \subseteq {"rating"}}

\* two threads calling query, not serialized, with the signatures of at most one
\* output field
Next2 ==
    \/ \E c \in Callers : \E signature \in {Sig0, Sig1} : \E data \in DataFor(signature) :
          QueryEnter(c, signature, data)
    \/ \E c \in Callers :
          \/ QuerySetState(c)
          \/ QueryClear(c)
          \/ QueryWait(c)
          \/ QueryRelock(c)
          \/ QueryRead(c)
          \/ QueryReturn(c)
    \/ \E h \in Handlers : \E form \in Bodies2 : \E src \in Sources(form) :
          PostReceive(h, form, src)
    \/ \E h \in Handlers : PostLock(h) \/ PostCall(h) \/ PostAssign(h)
    \/ Get

Spec2 == Init /\ [][Next2]_vars

\* one thread calling query, scheduled fairly; a handler that holds the lock goes on
Live1 ==
    /\ Spec1
    /\ WF_vars(QueryWait(1))
    /\ SF_vars(QueryRelock(1))
    /\ WF_vars(QueryRead(1))
    /\ WF_vars(QueryReturn(1))
    /\ \A h \in Handlers : WF_vars(PostCall(h)) /\ WF_vars(PostAssign(h))

(***************************************************************************)
(* The state objects driven directly, as tests/test_human_annotation.py    *)
(* does: state is the object under test, event the Event handed to post.   *)
(***************************************************************************)
\* query = Query(signature, data); query_processed = threading.Event()
TestNewQuery(signature, data) ==
    /\ nQueries < MaxAsks
    /\ nQueries' = nQueries + 1
    /\ LET q == QueryInit(signature, data, nQueries + 1) IN
       IF q.raised # ""
       THEN /\ callers' = [callers EXCEPT ![1].done = q.raised, ![1].msg = q.msg]
            /\ UNCHANGED <<state, event, tab, last>>
       ELSE /\ callers' = [callers EXCEPT ![1] = IdleCaller]
            /\ state' = q.obj
            /\ event' = FALSE
            /\ tab' = NoPage
            /\ last' = NoPost
    /\ UNCHANGED <<lock, posts, nPosts, nReturned, nSuccess>>

\* next_state, html = query.post(query_processed, FormData(**form))
TestPost(form) ==
    /\ state.tag = "Query"
    /\ nPosts < MaxPosts
    /\ nPosts' = nPosts + 1
    /\ LET r == QueryPost(state, FormDataInit({}, form).fields) IN
       /\ last' = [NoPost EXCEPT !.n = nPosts + 1, !.form = form, !.pre = state,
                                 !.raised = r.raised, !.next = r.next,
                                 !.html = r.html, !.set = r.set, !.errors = r.errors]
       /\ IF r.raised # ""
          THEN UNCHANGED <<state, event, tab, nSuccess>>
          ELSE /\ state' = r.next
               /\ event' = (event \/ r.set)
               /\ tab' = [by |-> "post", page |-> r.html, of |-> PageOf(r.next),
                          signaled |-> (event \/ r.set)]
               /\ nSuccess' = IF r.set THEN nSuccess + 1 ELSE nSuccess
    /\ UNCHANGED <<lock, callers, posts, nQueries, nReturned>>

\* the page of the object under test: query.get(), next_state.get()
TestGet ==
    /\ state.tag # "Waiting"
    /\ tab' = [by |-> "get", page |-> StateGet(state), of |-> PageOf(state),
               signaled |-> event]
    /\ UNCHANGED <<state, lock, event, callers, posts, last, nQueries, nPosts,
                   nReturned, nSuccess>>

NextQuery ==
    \/ \E signature \in Signatures : \E data \in DataFor(signature) :
          TestNewQuery(signature, data)
    \/ \E form \in Forms : TestPost(form)
    \/ TestGet

SpecQuery == Init /\ [][NextQuery]_vars

(***************************************************************************)
(* Properties.                                                             *)
(***************************************************************************)
\* the body carries one raw string per output field of the signature
Covers(signature, form) == DOMAIN form = OutputNames(signature)

\* every output field of the signature is in the body and validates
AllValid(signature, form) ==
    \A i \in 1..Len(signature.output_fields) :
        /\ signature.output_fields[i].name \in DOMAIN form
        /\ ValidateJson(signature.output_fields[i].annotation,
                        form[signature.output_fields[i].name]).ok

\* the output fields of the signature that the body lacks
MissingFrom(signature, form) == OutputNames(signature) \ DOMAIN form

\* the parsed value of every output field, for a body that validates
ParsedValues(signature, form) ==
    [k \in OutputNames(signature) |->
        LET i == CHOOSE i \in 1..Len(signature.output_fields) :
                     signature.output_fields[i].name = k
        IN  ValidateJson(signature.output_fields[i].annotation, form[k]).value]

\* the last POST handled was a body with one valid raw string per output field, for the
\* Query that was the state
ValidPostHandled ==
    /\ last.n > 0
    /\ last.pre.tag = "Query"
    /\ Covers(last.pre.signature, last.form)
    /\ AllValid(last.pre.signature, last.form)

\* C1: a POST with one valid raw string per output field, handled while the state is a
\* Query, makes the state a Result holding exactly the parsed values, one per output
\* field, and sets the event (so that the blocked query returns them).
C1_ValidPostAnswers ==
    ValidPostHandled =>
        /\ last.raised = ""
        /\ last.next.tag = "Result"
        /\ last.set
        /\ DOMAIN last.next.prediction = OutputNames(last.pre.signature)
        /\ \A k \in OutputNames(last.pre.signature) :
              last.next.prediction[k] = << ParsedValues(last.pre.signature, last.form)[k] >>

\* the body fails for the Query q: an output field is missing from it or does not validate
Fails(q, form) == q.tag = "Query" /\ ~AllValid(q.signature, form)

\* the question, the event and the callers are what they were
QuestionKept ==
    /\ state' = state
    /\ state'.tag = "Query"
    /\ event' = event
    /\ callers' = callers
    /\ \A c \in Callers : callers[c].pc = "wait" => ~event'

\* C2: every step of a POST handler on a body that fails for the Query that is the state
\* leaves the state that same Query (same signature, same data), does not set the event
\* and leaves every caller where it is: a caller blocked in wait stays blocked, however
\* many such submissions follow one another.
C2_FailedPostKeepsQuestion ==
    [][\A h \in Handlers :
          /\ \A form \in Forms : \A src \in Sources(form) :
                (PostReceive(h, form, src) /\ Fails(state, form)) => QuestionKept
          /\ (PostCall(h) /\ Fails(state, posts[h].form)) =>
                /\ QuestionKept
                /\ posts'[h].pc = "assign" => posts'[h].next = state
          /\ (PostAssign(h) /\ Fails(posts[h].pre, posts[h].form)) => QuestionKept
      ]_vars

\* two POSTs were handled, none validated, the last one carried a value for every output
\* field of the Query and failed: the Query is still the state and its caller still blocked
C2_Witness ==
    /\ last.n = 2
    /\ nSuccess = 0
    /\ Fails(last.pre, last.form)
    /\ Covers(last.pre.signature, last.form)
    /\ state = last.pre
    /\ callers[1].pc = "wait"
    /\ callers[1].qid = state.id
    /\ ~event

\* the last call of Query.post returned with errors for the Query that is still the state
FailedPostReturned ==
    /\ last.n > 0
    /\ last.raised = ""
    /\ last.pre.tag = "Query"
    /\ DOMAIN last.errors # {}
    /\ last.next = state

\* C3: after a failed submission a later GET of the page shows the submitted raw values
\* and the error text for exactly the fields that failed.
C3_LaterGetShowsDraftAndErrors ==
    (FailedPostReturned /\ tab.by = "get") =>
        tab.page = Form(state.signature, state.data, last.form, last.errors)

\* the last POST reached self.state.post (its body was accepted by FormData) while the
\* state was a Waiting or a Result
StrayPostHandled ==
    /\ last.n > 0
    /\ last.pre.tag # "Query"
    /\ FormDataInit(Items(last.form), EmptyMap).raised = ""

\* C6: a POST handled while the state is not a Query completes without raising, leaves
\* the state and the event unchanged and answers with the render of the state.
C6_StrayPostIsNoOp ==
    StrayPostHandled =>
        /\ last.raised = ""
        /\ last.next = last.pre
        /\ ~last.set
        /\ last.html = StateGet(last.pre)

\* C7: a submission that lacks output fields does not raise: the state stays the Query,
\* an error is recorded for each missing field and the event is not set.
C7_MissingFieldIsValidationFailure ==
    (/\ last.n > 0
     /\ last.pre.tag = "Query"
     /\ MissingFrom(last.pre.signature, last.form) # {}) =>
        /\ last.raised = ""
        /\ last.next = last.pre
        /\ ~last.set
        /\ MissingFrom(last.pre.signature, last.form) \subseteq DOMAIN last.errors

\* a POST validated every output field of Query object q: its Result is the state, or is
\* about to be stored by the handler that holds the lock
AnswerReady(q) ==
    \/ state.tag = "Result" /\ state.id = q
    \/ \E h \in Handlers :
          /\ posts[h].pc = "assign"
          /\ posts[h].next.tag = "Result"
          /\ posts[h].next.id = q
          /\ posts[h].pre.tag = "Query"
          /\ posts[h].pre.id = q
          /\ AllValid(posts[h].pre.signature, posts[h].form)

\* C4: with one caller, a query gets past wait only when a POST handled while its own
\* Query was the state has validated every output field, it returns the Result built
\* from its own Query, and the queries that have returned never outnumber the
\* submissions that validated.
C4_ReturnsOnlyAfterOwnAnswer ==
    /\ nReturned <= nSuccess
    /\ callers[1].pc = "lock2" => AnswerReady(callers[1].qid)
    /\ callers[1].pc = "read" => (state.tag = "Result" /\ state.id = callers[1].qid)
    /\ (callers[1].pc = "clear2" \/ callers[1].done = "returned") =>
          /\ callers[1].from = callers[1].qid
          /\ DOMAIN callers[1].result = OutputNames(callers[1].signature)
    /\ callers[1].done # "AttributeError"

\* the second query of the caller has returned after the second successful submission
C4_Witness ==
    /\ callers[1].done = "returned"
    /\ callers[1].qid = 2
    /\ callers[1].from = 2
    /\ nReturned = 2
    /\ nSuccess = 2

\* C5: with one caller scheduled fairly, once a POST has validated every output field of
\* the caller's Query (before or after the caller reached wait: the event stays set until
\* the caller clears it), the query returns the Result of that Query.
C5_NoLostWakeup ==
    \A q \in 1..MaxAsks :
        (\E h \in Handlers : posts[h].pc = "assign" /\ posts[h].next.tag = "Result"
                             /\ posts[h].next.id = q)
        ~> (callers[1].done = "returned" /\ callers[1].from = q)

\* the caller has returned the Result of its Query
C5_Witness ==
    /\ callers[1].done = "returned"
    /\ callers[1].from = callers[1].qid
    /\ callers[1].qid = 1
    /\ nSuccess = 1
    /\ state = Waiting
    /\ ~event

\* C8: Query(signature, data) is constructed iff data has every declared input field;
\* otherwise query raises a ValueError naming a missing field, without reaching wait,
\* leaving the state and the event as they were and the lock free.
C8_MissingInputRaises ==
    [][\A c \in Callers :
          QuerySetState(c) =>
             LET k == callers[c]
                 complete == InputNames(k.signature) \subseteq DOMAIN k.data
             IN  /\ complete <=> (/\ state'.tag = "Query"
                                  /\ state'.id = k.qid
                                  /\ state'.signature = k.signature
                                  /\ state'.data = k.data
                                  /\ callers'[c].pc = "clear1")
                 /\ ~complete => /\ callers'[c].done = "ValueError"
                                 /\ callers'[c].msg \in InputNames(k.signature) \ DOMAIN k.data
                                 /\ callers'[c].pc = "idle"
                                 /\ state' = state
                                 /\ event' = event
                                 /\ lock' = NoOwner
      ]_vars

\* query raised for the second declared input field, the first one being given
C8_Witness ==
    /\ callers[1].done = "ValueError"
    /\ callers[1].msg = "n"
    /\ "topic" \in DOMAIN callers[1].data
    /\ callers[1].pc = "idle"
    /\ lock = NoOwner
    /\ state = Waiting

\* C9: a body filled in from the form of one Query and handled when a later Query is the
\* state never makes that later Query a Result and never sets the event.
C9_StalePostNeverAnswers ==
    \A h \in Handlers :
        (/\ posts[h].pc = "assign"
         /\ posts[h].src # 0
         /\ posts[h].pre.tag = "Query"
         /\ posts[h].src # posts[h].pre.id) =>
            (posts[h].next.tag # "Result" /\ ~posts[h].set)

\* C10: a GET never sees the event set while the state it renders is still a Query.
C10_GetNeverSeesSignaledQuery ==
    (tab.by = "get" /\ tab.signaled) => tab.of = 0

\* the state changes along one of: Waiting -> Query when query stores its Query,
\* Query -> Result when a handler stores the Result of a submission that validated for
\* that Query, Result -> Waiting when the caller has read the prediction
LifecycleStep ==
    \/ /\ state.tag = "Waiting"
       /\ state'.tag = "Query"
       /\ QuerySetState(1)
    \/ /\ state.tag = "Query"
       /\ state'.tag = "Result"
       /\ state'.id = state.id
       /\ \E h \in Handlers : PostAssign(h) /\ AllValid(state.signature, posts[h].form)
    \/ /\ state.tag = "Result"
       /\ state' = Waiting
       /\ QueryRead(1)

\* the caller's query has returned and it has not called query again
ReturnedAndIdle == callers[1].pc = "idle" /\ callers[1].done = "returned"

\* C11: with one caller the state starts as Waiting, is always a Waiting, a Query or a
\* Result, changes only Waiting -> Query (query), Query -> Result (a submission that
\* validated) and Result -> Waiting (the caller read the result), a failed submission
\* leaving the Query in place; once query has returned and until it is called again the
\* state is Waiting, the event is clear and a GET renders the placeholder.
C11_Lifecycle ==
    /\ state = Waiting
    /\ [](/\ state.tag \in {"Waiting", "Query", "Result"}
          /\ ReturnedAndIdle => (state = Waiting /\ ~event /\ StateGet(state) = WaitingPage))
    /\ [][state' # state => LifecycleStep]_vars

\* the query has returned, the state is Waiting again and a GET after the return showed
\* the placeholder
C11_Witness ==
    /\ ReturnedAndIdle
    /\ nReturned = 1
    /\ state = Waiting
    /\ ~event
    /\ tab.by = "get"
    /\ tab.page = WaitingPage
    /\ ~tab.signaled

\* the output fields for which the page returned by the last call of post carries an
\* error text; a call that raised returned no page
ErrorFields(post) ==
    IF post.raised # "" \/ post.html.kind # "form"
    THEN {}
    ELSE {post.html.fields[i].name : i \in {j \in 1..Len(post.html.fields) :
                                                post.html.fields[j].error # ""}}

\* the output fields of the signature whose submitted raw value fails validation
InvalidFields(signature, form) ==
    {signature.output_fields[i].name : i \in {j \in 1..Len(signature.output_fields) :
        /\ signature.output_fields[j].name \in DOMAIN form
        /\ ~ValidateJson(signature.output_fields[j].annotation,
                         form[signature.output_fields[j].name]).ok}}

\* C12: for every submission to a Query, the fields that carry an error afterwards are
\* exactly the output fields whose raw value fails validation, and the state becomes a
\* Result iff there is no such field.
C12_AllFieldsValidated ==
    (last.n > 0 /\ last.pre.tag = "Query") =>
        /\ ErrorFields(last) = InvalidFields(last.pre.signature, last.form)
        /\ (last.next.tag = "Result" /\ last.raised = "")
               <=> (InvalidFields(last.pre.signature, last.form) = {})

\* the caller has stored its Query, cleared the event and left the first with block, and
\* no submission has validated since
AskedAndUnanswered ==
    /\ callers[1].pc = "wait"
    /\ ~event

\* C13: with one caller, from the moment query has stored its Query and released the lock
\* until a submission validates, the state is that Query, and a GET renders the form of
\* that query's signature and inputs: not the placeholder, not an earlier query's form.
C13_GetAfterAskShowsQuestion ==
    /\ [](AskedAndUnanswered =>
            /\ state.tag = "Query"
            /\ state.id = callers[1].qid
            /\ state.signature = callers[1].signature)
    /\ [][(Get /\ AskedAndUnanswered) =>
            /\ tab'.page = Form(callers[1].signature, callers[1].data, EmptyMap, EmptyMap)
            /\ tab'.page # WaitingPage
            /\ tab'.of = callers[1].qid]_vars

\* the second query waits for its answer and a GET served meanwhile shows its form
C13_Witness ==
    /\ AskedAndUnanswered
    /\ callers[1].qid = 2
    /\ nReturned = 1
    /\ lock = NoOwner
    /\ tab.by = "get"
    /\ tab.of = 2
    /\ tab.page = Form(callers[1].signature, callers[1].data, EmptyMap, EmptyMap)

\* the caller's wait() has returned and it holds the lock of the second with block
ReadingResult == callers[1].pc = "read" /\ lock = CallerOwner(1)

\* C14: with one caller, whenever the lock is free the event is set iff the state is a
\* Result, and when the caller has passed wait() and holds the lock again the state it
\* reads is the Result made for the Query it stored, with a value for every output field.
C14_ResultAndEventTogether ==
    /\ (lock = NoOwner => (event <=> state.tag = "Result"))
    /\ ReadingResult =>
          /\ event
          /\ state.tag = "Result"
          /\ state.id = callers[1].qid
          /\ DOMAIN state.prediction = OutputNames(callers[1].signature)

\* a handler has stored a Result, set the event and released the lock while the caller
\* has not taken the lock again
C14_Witness ==
    /\ lock = NoOwner
    /\ event
    /\ state.tag = "Result"
    /\ state.id = callers[1].qid
    /\ callers[1].pc \in {"wait", "lock2"}
    /\ last.set

\* the thread that holds the lock is inside a with block, at a statement that does not
\* wait for anything, and its next step is enabled
HolderRuns ==
    /\ \A c \in Callers :
          lock = CallerOwner(c) =>
              /\ callers[c].pc \in {"init", "clear1", "read", "clear2"}
              /\ ENABLED (QuerySetState(c) \/ QueryClear(c) \/ QueryRead(c) \/ QueryReturn(c))
    /\ \A h \in Handlers :
          lock = HandlerOwner(h) =>
              /\ posts[h].pc \in {"call", "assign"}
              /\ ENABLED (PostCall(h) \/ PostAssign(h))

\* C15: a caller blocked in wait(), or waiting for the lock after it, does not hold the
\* lock; whoever holds the lock is at a step that runs to the end of its with block, so a
\* handler that wants the lock is never kept out by a waiting caller.
C15_WaitsOutsideLock ==
    /\ \A c \in Callers :
          callers[c].pc \in {"wait", "lock2"} => lock # CallerOwner(c)
    /\ HolderRuns

\* both callers are blocked in wait() while a POST handler holds the lock
C15_Witness ==
    /\ \A c \in Callers : callers[c].pc = "wait"
    /\ ~event
    /\ \E h \in Handlers : lock = HandlerOwner(h) /\ posts[h].pc = "call"

\* caller c has assigned its Query to self.state in the query it is in or was last in
Stored(c) ==
    \/ callers[c].pc \in {"clear1", "wait", "lock2", "read", "clear2"}
    \/ callers[c].pc = "idle" /\ callers[c].done \in {"returned", "AttributeError"}

\* caller c is still inside query and another caller has stored a later Query
Overwritten(c) ==
    /\ callers[c].pc \in {"clear1", "wait", "lock2", "read", "clear2"}
    /\ \E d \in Callers \ {c} : Stored(d) /\ callers[d].qid > callers[c].qid

\* a query that stores its Query while another Query is the state replaces it and
\* goes on without an error
ReplaceStep(c) ==
    (/\ QuerySetState(c)
     /\ state.tag = "Query"
     /\ QueryInit(callers[c].signature, callers[c].data, callers[c].qid).raised = "") =>
        /\ state' = QueryInit(callers[c].signature, callers[c].data, callers[c].qid).obj
        /\ state'.id = callers[c].qid
        /\ callers'[c].pc = "clear1"
        /\ callers'[c].done = ""

\* C16: the state holds one Query at a time: a second query issued while a first is
\* unanswered replaces the first Query without an error, and from then on the first
\* Query is not the state, no GET renders it and no submission is validated against it.
C16_SecondAskReplacesFirst ==
    /\ [](\A c \in Callers : Overwritten(c) =>
             ~(state.tag = "Query" /\ state.id = callers[c].qid))
    /\ [][\A c \in Callers : ReplaceStep(c)]_vars
    /\ [][\A c \in Callers : (Get /\ Overwritten(c)) =>
             ~(tab'.page.kind = "form" /\ tab'.of = callers[c].qid)]_vars
    /\ [][\A c \in Callers : \A h \in Handlers :
             (PostCall(h) /\ Overwritten(c) /\ posts'[h].pc = "assign") =>
                 ~(posts'[h].pre.tag = "Query" /\ posts'[h].pre.id = callers[c].qid)]_vars

\* both callers wait, the state is the second Query, and a GET served after the
\* replacement shows the second Query's form
C16_Witness ==
    /\ \A c \in Callers : callers[c].pc = "wait"
    /\ callers[1].qid = 1
    /\ callers[2].qid = 2
    /\ Overwritten(1)
    /\ state.tag = "Query"
    /\ state.id = 2
    /\ tab.by = "get"
    /\ tab.of = 2

\* C17: a GET in any state changes neither the state nor the event, the lock, the callers
\* or the handlers, and the page it returns is the page a GET served right after it
\* returns: two GETs with nothing between them give the same page.
C17_GetIsPure ==
    [][Get =>
         /\ state' = state
         /\ event' = event
         /\ lock' = lock
         /\ callers' = callers
         /\ posts' = posts
         /\ tab'.page = StateGet(state)
         /\ StateGet(state') = tab'.page
         /\ (tab.by = "get" /\ tab.page = StateGet(state) => tab'.page = tab.page)]_vars

\* a GET was served while the event was set and the state was a Result, which is still
\* the state
C17_Witness ==
    /\ tab.by = "get"
    /\ tab.signaled
    /\ tab.page = WaitingPage
    /\ state.tag = "Result"
    /\ event
    /\ callers[1].pc = "wait"

\* the last call of Query.post returned the form again, filled with the submitted values
FormReturned ==
    /\ last.n > 0
    /\ last.pre.tag = "Query"
    /\ last.raised = ""
    /\ last.html.kind = "form"

\* the draft value of a field of the form returned by the last post
DraftOf(name) == IF name \in DOMAIN last.form THEN last.form[name] ELSE ""

\* C18: in a form rendered with a draft, every field of an enumeration type has one
\* radio option per allowed value, and an option is checked iff the draft value of the
\* field is the value that option submits.
C18_DraftOptionChecked ==
    FormReturned =>
        \A j \in 1..Len(last.html.fields) :
            LET f == last.html.fields[j] IN
            f.control = "radio" =>
                /\ Len(f.options) = Len(LiteralValues)
                /\ \A k \in 1..Len(f.options) :
                      /\ f.options[k].value = "\"" \o LiteralValues[k] \o "\""
                      /\ f.options[k].checked <=> (DraftOf(f.name) = f.options[k].value)

\* the callers whose wait() has returned and whose query has not returned yet
Released == {c \in Callers : callers[c].pc \in {"lock2", "read", "clear2"}}

\* C19: with two callers that are not serialized, every caller that has passed wait()
\* and holds the lock again finds a Result, no query fails while reading the result, and
\* the callers let through wait() are no more than the submissions that validated.
C19_EveryResumedCallerFindsResult ==
    /\ \A c \in Callers :
          (callers[c].pc = "read" /\ lock = CallerOwner(c)) => state.tag = "Result"
    /\ \A c \in Callers : callers[c].done # "AttributeError"
    /\ nReturned + Cardinality(Released) <= nSuccess

\* at most one thread is inside query
Serialized == Cardinality({c \in Callers : callers[c].pc # "idle"}) <= 1

\* C19, amended: as long as the callers are serialized, at most one thread inside query
\* at any time, every caller that has passed wait() and holds the lock again finds a
\* Result, no query fails while reading the result, and the callers let through wait()
\* are no more than the submissions that validated.
C19_SerializedCallersFindResult ==
    []Serialized => []C19_EveryResumedCallerFindsResult

\* the two callers took turns: the first query has returned and the second caller holds
\* the lock again and finds the Result of its own Query
C19_Witness ==
    /\ callers[1].pc = "idle"
    /\ callers[1].done = "returned"
    /\ callers[1].qid = 1
    /\ callers[2].pc = "read"
    /\ callers[2].qid = 2
    /\ lock = CallerOwner(2)
    /\ state.tag = "Result"
    /\ state.id = 2
    /\ nSuccess = 2

\* the step in which handler h ends with an exception: while building FormData, or
\* inside self.state.post
PostRaises(h) ==
    /\ \/ \E form \in Forms : \E src \in Sources(form) : PostReceive(h, form, src)
       \/ PostCall(h)
    /\ last' # last
    /\ last'.raised # ""

\* C20: when the handling of a POST ends with an exception, the handler does not hold
\* the lock afterwards (the lock is free if the handler had taken it), the state, the
\* event and the callers are what they were, and the handler is ready for the next POST.
C20_FailedPostLeavesServerIntact ==
    [][\A h \in Handlers : PostRaises(h) =>
         /\ state' = state
         /\ event' = event
         /\ callers' = callers
         /\ last'.next = state
         /\ lock' # HandlerOwner(h)
         /\ (lock = HandlerOwner(h) => lock' = NoOwner)
         /\ (lock # HandlerOwner(h) => lock' = lock)
         /\ posts'[h] = IdleHandler]_vars

\* a POST raised KeyError inside Query.post while the caller waits: the lock is free, the
\* caller's Query is still the state, the event is not set and the caller still waits
C20_Witness ==
    /\ last.n > 0
    /\ last.raised = "KeyError"
    /\ last.pre = state
    /\ lock = NoOwner
    /\ state.tag = "Query"
    /\ state.id = callers[1].qid
    /\ ~event
    /\ callers[1].pc = "wait"
    /\ \A h \in Handlers : posts[h].pc = "idle"

====
